---- MODULE Spec2Model ----
(***************************************************************************)
(* A model of the gue job queue: the locked Job and its lifecycle methods  *)
(* (job.go), the active and archive tables (schema.sql), and the worker    *)
(* poll loop and lock query that drive them.                               *)
(*                                                                         *)
(* The database is modelled at the level the code uses it: a transaction   *)
(* holds the row lock of one job from LockNextJob until it is committed or *)
(* rolled back, sees its own uncommitted writes, and publishes them on     *)
(* Commit.  A statement that fails aborts the transaction, and a Commit    *)
(* that fails ends it without publishing anything.                         *)
(***************************************************************************)
EXTENDS Integers, Sequences, FiniteSets, TLC

(***************************************************************************)
(* Bounds of the model.                                                    *)
(***************************************************************************)
NumWorkers == 2
MaxJobs == 1
QueueJobs == 2
MaxTime == 2
MaxErrors == 2
MaxCalls == 1
MaxFaults == 1

Workers == 1..NumWorkers
JobIds == 1..QueueJobs

(***************************************************************************)
(* SQL NULL for the nullable timestamp columns, the zero time.Time that a  *)
(* sql.NullTime holds when it is not valid, and the nil error.             *)
(***************************************************************************)
Null == -9
ZeroTime == -8
Nil == <<>>
NoRow == [absent |-> TRUE]
NoJob == [ID |-> 0]
NoTx == [st |-> "none"]
NoLast ==
    [w |-> 0, step |-> "none", job |-> NoJob, calls |-> <<>>, opt |-> <<>>,
     hooks |-> <<>>, tx |-> "none", closes |-> 0, err |-> Nil, pan |-> FALSE]

WorkerQueue == ""
WorkMap == {"MyJob"}

VARIABLES
    db,         \* gue_jobs, committed: job id -> row or NoRow
    archive,    \* gue_jobs_finished, committed: a set of rows
    nextId,     \* the bigserial sequence of gue_jobs.job_id
    now,        \* the clock
    cancelled,  \* the pool's context has been cancelled
    pc,         \* worker -> "idle" | "work" | "exited" | "crashed"
    job,        \* worker -> the Job it holds, or NoJob
    tx,         \* worker -> the transaction behind its Job
    last,       \* what the last step of a worker's loop did, or NoLast
    retryAt,    \* job id -> the time before which its last failed attempt
                \* forbids a new one, or Null
    faults,     \* database faults injected so far
    pool,       \* the worker pool: its options and the workers built from them
    hist,       \* the calls made on one Job by a caller of its own, in order
    race        \* two goroutines calling methods of one Job concurrently

vars ==
    <<db, archive, nextId, now, cancelled, pc, job, tx, last, retryAt, faults,
      pool, hist, race>>

(***************************************************************************)
(* The variables of the worker loop and its tables, and the variables of   *)
(* the parts of the program that are exercised on their own.               *)
(***************************************************************************)
loopVars == <<db, archive, nextId, now, cancelled, pc, job, tx, last, retryAt, faults>>

(***************************************************************************)
(* Backoff strategies: a function from the retry count to a duration.      *)
(***************************************************************************)
BackoffBase == 1
BackoffFactor == 2
BackoffCap == 3

RECURSIVE Pow(_, _)
Pow(b, e) == IF e <= 0 THEN 1 ELSE b * Pow(b, e - 1)

Min(a, b) == IF a <= b THEN a ELSE b

Backoff(kind, retries) ==
    CASE kind = "constant" -> BackoffBase
      [] kind = "exponential" ->
            Min(BackoffBase * Pow(BackoffFactor, retries - 1), BackoffCap)
      [] kind = "never" -> 0 - 1

(***************************************************************************)
(* The lock query: SELECT ... WHERE queue = $1 AND run_at <= now()         *)
(* ORDER BY <strategy> LIMIT 1 FOR UPDATE SKIP LOCKED.                     *)
(***************************************************************************)
HoldsLock(w) == tx[w].st \in {"open", "aborted"}

RowLocked(id) == \E w \in Workers : HoldsLock(w) /\ job[w].ID = id

EligibleNoSkipLocked(queue) ==
    {id \in JobIds : /\ db[id] # NoRow
                     /\ db[id].queue = queue
                     /\ db[id].run_at <= now}

EligibleAnyRunAt(queue) ==
    {id \in JobIds : /\ db[id] # NoRow
                     /\ db[id].queue = queue
                     /\ ~RowLocked(id)}

Eligible(queue) ==
    {id \in JobIds : /\ db[id] # NoRow
                     /\ db[id].queue = queue
                     /\ db[id].run_at <= now
                     /\ ~RowLocked(id)}

OrderKeyPriorityOnly(strategy, id) ==
    <<db[id].priority, db[id].run_at, id>>

OrderKey(strategy, id) ==
    IF strategy = "priority"
    THEN <<db[id].priority, db[id].run_at, id>>
    ELSE <<db[id].run_at, db[id].priority, id>>

LexLess(a, b) ==
    \/ a[1] < b[1]
    \/ a[1] = b[1] /\ a[2] < b[2]
    \/ a[1] = b[1] /\ a[2] = b[2] /\ a[3] < b[3]

Before(strategy, a, b) == LexLess(OrderKey(strategy, a), OrderKey(strategy, b))

LockQuery(queue, strategy) ==
    LET cand == Eligible(queue)
    IN  IF cand = {} THEN 0
        ELSE CHOOSE id \in cand : \A o \in cand \ {id} : Before(strategy, id, o)

(***************************************************************************)
(* The row scanned into a Job by LockNextJob, with the transaction, the    *)
(* pool and the client's backoff attached and the flags clear.             *)
(***************************************************************************)
ScanJob(id, backoff) ==
    [ID |-> id,
     Queue |-> db[id].queue,
     Priority |-> db[id].priority,
     RunAt |-> db[id].run_at,
     Type |-> db[id].type,
     Args |-> db[id].args,
     ErrorCount |-> db[id].error_count,
     LastError |-> db[id].last_error,
     CreatedAt |-> db[id].created_at,
     UpdatedAt |-> db[id].updated_at,
     FinishedAt |-> db[id].finished_at,
     finished |-> FALSE,
     deleted |-> FALSE,
     pool |-> TRUE,
     tx |-> TRUE,
     backoff |-> backoff]

(***************************************************************************)
(* A running call: the Job j, its transaction tx, the committed tables,    *)
(* the clock t, the error err the last call returned, and pan when a call  *)
(* panicked (a method called on the nil j.tx).  The failAt-th database     *)
(* operation of the call is made to fail; ops counts the operations issued *)
(* and hit tells that the fault struck.  A soft fault is an Exec that      *)
(* returns an error without reaching the server, which leaves the          *)
(* transaction open.                                                       *)
(***************************************************************************)
Ctx(w, failAt) ==
    [j |-> job[w], tx |-> tx[w], db |-> db, archive |-> archive, t |-> now,
     ops |-> 0, failAt |-> failAt, soft |-> FALSE, hit |-> FALSE,
     err |-> Nil, pan |-> FALSE]

Issue(c) == [c EXCEPT !.ops = @ + 1]
Struck(c) == c.failAt = c.ops + 1

(***************************************************************************)
(* adapter.Tx.Exec of a statement that turns the transaction's view of the *)
(* job's row into row and its pending archive inserts into arch.  It fails *)
(* on a transaction that is aborted or over, when the fault strikes, and   *)
(* when dup tells that the statement violates a constraint; a failure      *)
(* aborts an open transaction.                                             *)
(***************************************************************************)
TxExec(c, row, arch, dup) ==
    IF c.tx.st # "open"
    THEN [Issue(c) EXCEPT !.err = <<"exec">>]
    ELSE IF Struck(c) /\ c.soft
    THEN [Issue(c) EXCEPT !.err = <<"exec">>, !.hit = TRUE]
    ELSE IF Struck(c)
    THEN [Issue(c) EXCEPT !.err = <<"exec">>, !.tx.st = "aborted", !.hit = TRUE]
    ELSE IF dup
    THEN [Issue(c) EXCEPT !.err = <<"exec">>, !.tx.st = "aborted"]
    ELSE [Issue(c) EXCEPT !.err = Nil, !.tx.row = row, !.tx.arch = arch]

(***************************************************************************)
(* adapter.Tx.Commit: publishes the transaction's writes and releases the  *)
(* row lock.  A commit of an aborted transaction, or one the fault         *)
(* strikes, rolls back and returns an error; either way the transaction is *)
(* over.                                                                   *)
(***************************************************************************)
TxCommit(c) ==
    IF c.tx.st = "open" /\ ~Struck(c)
    THEN [Issue(c) EXCEPT !.err = Nil,
                          !.tx.st = "committed",
                          !.tx.closes = @ + 1,
                          !.db = [c.db EXCEPT ![c.j.ID] = c.tx.row],
                          !.archive = c.archive \cup c.tx.arch]
    ELSE IF c.tx.st \in {"open", "aborted"}
    THEN [Issue(c) EXCEPT !.err = <<"commit">>,
                          !.tx.st = "rolledback",
                          !.tx.closes = @ + 1,
                          !.hit = (c.hit \/ c.tx.st = "open")]
    ELSE [Issue(c) EXCEPT !.err = <<"commit">>, !.tx.closes = @ + 1]

(***************************************************************************)
(* A method value called on the nil interface j.tx panics.                 *)
(***************************************************************************)
NilTxPanic(c) == [c EXCEPT !.pan = TRUE]

DeleteFlagOnly(c) ==
    IF c.j.deleted THEN [c EXCEPT !.err = Nil]
    ELSE IF ~c.j.tx THEN NilTxPanic(c)
    ELSE [c EXCEPT !.err = Nil, !.j.deleted = TRUE]

(***************************************************************************)
(* Job.Delete                                                              *)
(***************************************************************************)
Delete(c) ==
    IF c.j.deleted THEN [c EXCEPT !.err = Nil]
    ELSE IF ~c.j.tx THEN NilTxPanic(c)
    ELSE LET r == TxExec(c, NoRow, c.tx.arch, FALSE)
         IN  IF r.err # Nil THEN r
             ELSE [r EXCEPT !.j.deleted = TRUE]

(***************************************************************************)
(* Job.Finished: UPDATE gue_jobs SET finished_at = now WHERE job_id = ID,  *)
(* which changes nothing when the transaction has deleted the row.         *)
(***************************************************************************)
SetFinishedAt(row, t) ==
    IF row = NoRow THEN NoRow ELSE [row EXCEPT !.finished_at = t]

FinishedFlagOnly(c) ==
    IF c.j.finished THEN [c EXCEPT !.err = Nil]
    ELSE IF ~c.j.tx THEN NilTxPanic(c)
    ELSE [c EXCEPT !.err = Nil, !.j.FinishedAt = c.t, !.j.finished = TRUE]

Finished(c) ==
    IF c.j.finished THEN [c EXCEPT !.err = Nil]
    ELSE IF ~c.j.tx THEN NilTxPanic(c)
    ELSE LET r == TxExec(c, SetFinishedAt(c.tx.row, c.t), c.tx.arch, FALSE)
         IN  IF r.err # Nil THEN r
             ELSE [r EXCEPT !.j.FinishedAt = c.t, !.j.finished = TRUE]

(***************************************************************************)
(* Job.Migrate: INSERT INTO gue_jobs_finished of the Job's fields, with    *)
(* UpdatedAt.Time and FinishedAt.Time passed as plain times.  job_id is    *)
(* the primary key of the archive table.                                   *)
(***************************************************************************)
PlainTime(nt) == IF nt = Null THEN ZeroTime ELSE nt

ArchiveRow(j) ==
    [job_id |-> j.ID,
     type |-> j.Type,
     queue |-> j.Queue,
     args |-> j.Args,
     priority |-> j.Priority,
     run_at |-> j.RunAt,
     error_count |-> j.ErrorCount,
     last_error |-> j.LastError,
     created_at |-> j.CreatedAt,
     updated_at |-> PlainTime(j.UpdatedAt),
     finished_at |-> PlainTime(j.FinishedAt)]

MigrateUnfinished(c) ==
    IF ~c.j.tx THEN NilTxPanic(c)
    ELSE TxExec(c, c.tx.row, c.tx.arch \cup {ArchiveRow(c.j)},
                \E a \in c.archive \cup c.tx.arch : a.job_id = c.j.ID)

Migrate(c) ==
    IF ~c.j.finished THEN [c EXCEPT !.err = Nil]
    ELSE IF ~c.j.tx THEN NilTxPanic(c)
    ELSE TxExec(c, c.tx.row, c.tx.arch \cup {ArchiveRow(c.j)},
                \E a \in c.archive \cup c.tx.arch : a.job_id = c.j.ID)

DoneKeepsHandles(c) ==
    IF ~c.j.tx \/ ~c.j.pool THEN [c EXCEPT !.err = Nil]
    ELSE TxCommit(c)

(***************************************************************************)
(* Job.Done                                                                *)
(***************************************************************************)
Done(c) ==
    IF ~c.j.tx \/ ~c.j.pool THEN [c EXCEPT !.err = Nil]
    ELSE LET r == TxCommit(c)
         IN  IF r.err # Nil THEN r
             ELSE [r EXCEPT !.j.pool = FALSE, !.j.tx = FALSE]

(***************************************************************************)
(* Job.Error: the UPDATE of error_count, run_at, last_error and            *)
(* updated_at, then the deferred Done, whose error wraps the UPDATE's.     *)
(* The deferred Done runs as well while a panic of the UPDATE unwinds.     *)
(***************************************************************************)
SetError(row, errorCount, newRunAt, msg, t) ==
    IF row = NoRow THEN NoRow
    ELSE [row EXCEPT !.error_count = errorCount,
                     !.run_at = newRunAt,
                     !.last_error = msg,
                     !.updated_at = t]

ErrorUpdateSameCount(c, msg) ==
    LET errorCount == c.j.ErrorCount
        newRunAt == c.t + Backoff(c.j.backoff, errorCount + 1)
    IN  IF ~c.j.tx THEN NilTxPanic(c)
        ELSE TxExec(c, SetError(c.tx.row, errorCount, newRunAt, msg, c.t),
                    c.tx.arch, FALSE)

ErrorUpdateNoBackoff(c, msg) ==
    LET errorCount == c.j.ErrorCount + 1
        newRunAt == c.t
    IN  IF ~c.j.tx THEN NilTxPanic(c)
        ELSE TxExec(c, SetError(c.tx.row, errorCount, newRunAt, msg, c.t),
                    c.tx.arch, FALSE)

ErrorUpdate(c, msg) ==
    LET errorCount == c.j.ErrorCount + 1
        newRunAt == c.t + Backoff(c.j.backoff, errorCount)
    IN  IF ~c.j.tx THEN NilTxPanic(c)
        ELSE TxExec(c, SetError(c.tx.row, errorCount, newRunAt, msg, c.t),
                    c.tx.arch, FALSE)

ErrorReturnsEarly(c, msg) ==
    LET u == ErrorUpdate(c, msg)
        d == Done(u)
    IN  IF u.err # Nil THEN u
        ELSE IF d.err # Nil
        THEN [d EXCEPT !.err = <<"done">> \o u.err \o d.err]
        ELSE [d EXCEPT !.err = u.err]

Error(c, msg) ==
    LET u == ErrorUpdate(c, msg)
        d == Done(u)
    IN  IF d.err # Nil
        THEN [d EXCEPT !.err = <<"done">> \o u.err \o d.err]
        ELSE [d EXCEPT !.err = u.err]

(***************************************************************************)
(* Enqueue: the jobs a producer may insert.  delay is run_at - now.        *)
(***************************************************************************)
JobKinds ==
    {[queue |-> "", priority |-> 0, delay |-> 0, type |-> "MyJob"],
     [queue |-> "", priority |-> 0 - 1, delay |-> 1, type |-> "MyJob"],
     [queue |-> "", priority |-> 0, delay |-> 0, type |-> "NoSuch"],
     [queue |-> "other", priority |-> 0 - 1, delay |-> 0, type |-> "MyJob"]}

NewRow(k) ==
    [queue |-> k.queue,
     priority |-> k.priority,
     run_at |-> now + k.delay,
     type |-> k.type,
     args |-> "[]",
     error_count |-> 0,
     last_error |-> "",
     created_at |-> now,
     updated_at |-> Null,
     finished_at |-> Null]

Enqueue(k, max) ==
    /\ nextId <= max
    /\ db' = [db EXCEPT ![nextId] = NewRow(k)]
    /\ nextId' = nextId + 1
    /\ last' = NoLast
    /\ UNCHANGED <<archive, now, cancelled, pc, job, tx, faults, retryAt, pool, hist, race>>

Tick ==
    /\ now < MaxTime
    /\ now' = now + 1
    /\ last' = NoLast
    /\ UNCHANGED <<db, archive, nextId, cancelled, pc, job, tx, faults, retryAt, pool, hist, race>>

Cancel ==
    /\ ~cancelled
    /\ cancelled' = TRUE
    /\ last' = NoLast
    /\ UNCHANGED <<db, archive, nextId, now, pc, job, tx, faults, retryAt, pool, hist, race>>

(***************************************************************************)
(* The options of a worker and of the client behind it.  Workers with      *)
(* different options may consume the same tables, so each step draws the   *)
(* options of the worker that takes it.                                    *)
(***************************************************************************)
Strategies == {"priority", "run_at"}
Backoffs == {"constant", "exponential", "never"}
Options == [preserve : BOOLEAN, migrate : BOOLEAN]
DefaultOptions == [preserve |-> FALSE, migrate |-> FALSE]
DefaultBackoff == "constant"

(***************************************************************************)
(* Hook invocations: the lifecycle point, whether a job is passed, and     *)
(* whether the error passed is non-nil.                                    *)
(***************************************************************************)
Hook(point, j, e) == [point |-> point, job |-> (j # NoJob), err |-> (e # Nil)]

(***************************************************************************)
(* Hook options.  A worker and a pool hold one list of hooks per lifecycle *)
(* point, empty unless an option sets it; an option assigns the list it    *)
(* was called with.  An option is the name of its lifecycle point with its *)
(* hooks, and options apply in the order given.                            *)
(***************************************************************************)
MaxHooks == 2
MaxOptions == 2

HookFuncs == 1..MaxHooks
HookLists == UNION {[1..n -> HookFuncs] : n \in 0..MaxHooks}
HookOptions == [name : {"JobLocked", "UnknownJobType", "JobDone"}, hooks : HookLists]
OptionSeqs == UNION {[1..n -> HookOptions] : n \in 0..MaxOptions}

WithWorkerHooksJobLocked(hooks, w) == [w EXCEPT !.hooksJobLocked = hooks]
WithWorkerHooksUnknownJobType(hooks, w) == [w EXCEPT !.hooksUnknownJobType = hooks]
WithWorkerHooksJobDone(hooks, w) == [w EXCEPT !.hooksJobDone = hooks]

WithPoolHooksJobLocked(hooks, p) == [p EXCEPT !.hooksJobLocked = hooks]
WithPoolHooksUnknownJobType(hooks, p) == [p EXCEPT !.hooksUnknownJobType = hooks]
WithPoolHooksJobDoneOnLocked(hooks, p) == [p EXCEPT !.hooksJobLocked = hooks]

WithPoolHooksJobDone(hooks, p) == [p EXCEPT !.hooksJobDone = hooks]

WorkerOption(o, w) ==
    CASE o.name = "JobLocked" -> WithWorkerHooksJobLocked(o.hooks, w)
      [] o.name = "UnknownJobType" -> WithWorkerHooksUnknownJobType(o.hooks, w)
      [] o.name = "JobDone" -> WithWorkerHooksJobDone(o.hooks, w)

WorkerPoolOption(o, p) ==
    CASE o.name = "JobLocked" -> WithPoolHooksJobLocked(o.hooks, p)
      [] o.name = "UnknownJobType" -> WithPoolHooksUnknownJobType(o.hooks, p)
      [] o.name = "JobDone" -> WithPoolHooksJobDone(o.hooks, p)

RECURSIVE WorkerWith(_, _)
WorkerWith(w, opts) ==
    IF opts = <<>> THEN w
    ELSE WorkerWith(WorkerOption(Head(opts), w), Tail(opts))

RECURSIVE PoolWith(_, _)
PoolWith(p, opts) ==
    IF opts = <<>> THEN p
    ELSE PoolWith(WorkerPoolOption(Head(opts), p), Tail(opts))

NoHooks == [hooksJobLocked |-> <<>>, hooksUnknownJobType |-> <<>>, hooksJobDone |-> <<>>]

NewWorker(opts) == WorkerWith(NoHooks, opts)

(***************************************************************************)
(* NewWorkerPool: the pool's options are applied to the pool, and each of  *)
(* its n workers is built with the worker-level hook options of the pool's *)
(* three lists.                                                            *)
(***************************************************************************)
NewWorkerPool(n, opts) ==
    LET p == PoolWith(NoHooks, opts)
        w == NewWorker(<<[name |-> "JobLocked", hooks |-> p.hooksJobLocked],
                         [name |-> "UnknownJobType", hooks |-> p.hooksUnknownJobType],
                         [name |-> "JobDone", hooks |-> p.hooksJobDone]>>)
    IN  [hooksJobLocked |-> p.hooksJobLocked,
         hooksUnknownJobType |-> p.hooksUnknownJobType,
         hooksJobDone |-> p.hooksJobDone,
         workers |-> [i \in 1..n |-> w]]

Points == {"locked", "unknown", "done"}

HooksAt(w, point) ==
    CASE point = "locked" -> w.hooksJobLocked
      [] point = "unknown" -> w.hooksUnknownJobType
      [] point = "done" -> w.hooksJobDone

(***************************************************************************)
(* A pool as built from n and opts, and the counter that the hooks of its  *)
(* workers bump when every worker's list of a lifecycle point is run once. *)
(***************************************************************************)
BuiltPool(n, opts) ==
    [n |-> n, opts |-> opts, p |-> NewWorkerPool(n, opts),
     counter |-> [pt \in Points |-> 0], ran |-> {}]

RECURSIVE SumHooks(_, _)
SumHooks(ws, point) ==
    IF ws = <<>> THEN 0
    ELSE Len(HooksAt(Head(ws), point)) + SumHooks(Tail(ws), point)

RunHooks(point) ==
    /\ point \notin pool.ran
    /\ pool' = [pool EXCEPT !.ran = @ \cup {point},
                            !.counter[point] = @ + SumHooks(pool.p.workers, point)]
    /\ UNCHANGED <<loopVars, hist, race>>

(***************************************************************************)
(* The pool behind the workers of the poll loop: MaxHooks hooks at every   *)
(* lifecycle point.  A worker invokes each hook of the point's list once.  *)
(***************************************************************************)
LoopHooks == [i \in 1..MaxHooks |-> i]

LoopPool ==
    BuiltPool(NumWorkers, <<[name |-> "JobLocked", hooks |-> LoopHooks],
                            [name |-> "UnknownJobType", hooks |-> LoopHooks],
                            [name |-> "JobDone", hooks |-> LoopHooks]>>)

RECURSIVE Fire(_, _)
Fire(w, hs) ==
    IF hs = <<>> THEN <<>>
    ELSE [i \in 1..Len(HooksAt(pool.p.workers[w], Head(hs).point)) |-> Head(hs)]
            \o Fire(w, Tail(hs))

(***************************************************************************)
(* The record of a step of worker w's loop: the step, the job it locked or *)
(* the id of the job it finalized, the options it ran under, the handler's *)
(* calls, the hooks                                                        *)
(* invoked in order, the state the transaction was left in, the error of   *)
(* the last job method and whether the worker panicked outside the         *)
(* handler.                                                                *)
(***************************************************************************)
Did(w, step, j, fired, c) ==
    [w |-> w, step |-> step, job |-> j, calls |-> <<>>, opt |-> <<>>,
     hooks |-> Fire(w, fired), tx |-> c.tx.st, closes |-> c.tx.closes,
     err |-> c.err, pan |-> c.pan]

(***************************************************************************)
(* How a fault is drawn: none (0), or the f-th database operation of the   *)
(* step, while the budget of faults lasts.  A fault that no operation runs *)
(* into is not a step of its own.                                          *)
(***************************************************************************)
MaxOps == 3 + 2 * MaxCalls

FaultOK(f, c) ==
    /\ f > 0 => faults < MaxFaults /\ c.hit
    /\ faults' = IF f > 0 THEN faults + 1 ELSE faults

Held(t) == t.st \in {"open", "aborted"}

(***************************************************************************)
(* The worker's poll: step 1 and step 2 of the loop.  A poll that locks no *)
(* row rolls its transaction back.                                         *)
(***************************************************************************)
RolledBack(e) == [tx |-> [st |-> "rolledback", closes |-> 1], err |-> e, pan |-> FALSE]

PollEmpty(w, strategy) ==
    /\ pc[w] = "idle"
    /\ ~cancelled
    /\ LockQuery(WorkerQueue, strategy) = 0
    /\ last' = [Did(w, "empty", NoJob, <<Hook("locked", NoJob, Nil)>>, RolledBack(Nil))
                   EXCEPT !.opt = <<strategy>>]
    /\ UNCHANGED <<db, archive, nextId, now, cancelled, pc, job, tx, faults, retryAt, pool, hist, race>>

PollErrorThenDone(w) ==
    /\ pc[w] = "idle"
    /\ ~cancelled
    /\ faults < MaxFaults
    /\ faults' = faults + 1
    /\ last' = Did(w, "lockerr", NoJob,
                   <<Hook("locked", NoJob, <<"lock">>), Hook("done", NoJob, <<"lock">>)>>,
                   RolledBack(<<"lock">>))
    /\ UNCHANGED <<db, archive, nextId, now, cancelled, pc, job, tx, retryAt, pool, hist, race>>

PollError(w) ==
    /\ pc[w] = "idle"
    /\ ~cancelled
    /\ faults < MaxFaults
    /\ faults' = faults + 1
    /\ last' = Did(w, "lockerr", NoJob, <<Hook("locked", NoJob, <<"lock">>)>>,
                   RolledBack(<<"lock">>))
    /\ UNCHANGED <<db, archive, nextId, now, cancelled, pc, job, tx, retryAt, pool, hist, race>>

(***************************************************************************)
(* A poll that locks a job whose type has a handler: the job-locked hooks  *)
(* run and the handler starts.                                             *)
(***************************************************************************)
OpenTx(id) == [st |-> "open", row |-> db[id], arch |-> {}, closes |-> 0]

PollJob(w, strategy, backoff) ==
    LET id == LockQuery(WorkerQueue, strategy)
        j == ScanJob(id, backoff)
    IN  /\ pc[w] = "idle"
        /\ ~cancelled
        /\ id # 0
        /\ db[id].type \in WorkMap
        /\ job' = [job EXCEPT ![w] = j]
        /\ tx' = [tx EXCEPT ![w] = OpenTx(id)]
        /\ last' = [Did(w, "locked", j, <<Hook("locked", j, Nil)>>,
                        [tx |-> OpenTx(id), err |-> Nil, pan |-> FALSE])
                       EXCEPT !.opt = <<strategy>>]
        /\ pc' = [pc EXCEPT ![w] = "work"]
        /\ UNCHANGED <<db, archive, nextId, now, cancelled, faults, retryAt, pool, hist, race>>

(***************************************************************************)
(* The end of a poll that held a job: the worker drops the Job and goes    *)
(* back to step 1.  A panic outside the handler's recover ends the process *)
(* instead: every worker of the pool stops, and the database rolls back    *)
(* the transactions of the connections it loses.  retryAt records a failed *)
(* attempt that the step committed: its time plus the backoff of the       *)
(* job's new error count.                                                  *)
(***************************************************************************)
Retry(id, c) ==
    IF c.db[id] = NoRow THEN Null
    ELSE IF db[id] # NoRow /\ c.db[id].error_count > db[id].error_count
    THEN c.t + Backoff(c.j.backoff, c.j.ErrorCount + 1)
    ELSE retryAt[id]

Release(w, c) ==
    /\ db' = c.db
    /\ archive' = c.archive
    /\ IF c.pan
       THEN /\ pc' = [v \in Workers |-> "crashed"]
            /\ job' = [v \in Workers |-> NoJob]
            /\ tx' = [v \in Workers |-> NoTx]
       ELSE /\ pc' = [pc EXCEPT ![w] = "idle"]
            /\ job' = [job EXCEPT ![w] = IF Held(c.tx) THEN c.j ELSE NoJob]
            /\ tx' = [tx EXCEPT ![w] = IF Held(c.tx) THEN c.tx ELSE NoTx]
    /\ retryAt' = [id \in JobIds |-> Retry(id, c)]
    /\ UNCHANGED <<nextId, now, cancelled, pool, hist, race>>

(***************************************************************************)
(* Calls of the Job's methods one after another, by the worker or by a     *)
(* handler.  A panic of one call skips the calls after it.                 *)
(***************************************************************************)
Call(c, m) ==
    CASE m = "Finished" -> Finished(c)
      [] m = "Delete" -> Delete(c)
      [] m = "Migrate" -> Migrate(c)
      [] m = "Done" -> Done(c)
      [] m = "Error" -> Error(c, "boom")

RECURSIVE Calls(_, _)
Calls(c, ms) ==
    IF ms = <<>> \/ c.pan THEN c
    ELSE Calls(Call(c, Head(ms)), Tail(ms))

(***************************************************************************)
(* Step 3 of the loop for a job whose type has no handler: the             *)
(* unknown-job-type hooks, Delete, Done.                                   *)
(***************************************************************************)
FinalizeUnknown(c) == Calls(c, <<"Delete", "Done">>)

PollUnknown(w, strategy, f) ==
    LET id == LockQuery(WorkerQueue, strategy)
        j == ScanJob(id, DefaultBackoff)
        r == FinalizeUnknown([Ctx(w, f) EXCEPT !.j = j, !.tx = OpenTx(id)])
    IN  /\ pc[w] = "idle"
        /\ ~cancelled
        /\ id # 0
        /\ db[id].type \notin WorkMap
        /\ FaultOK(f, r)
        /\ Release(w, r)
        /\ last' = [Did(w, "unknown", j,
                        <<Hook("locked", j, Nil),
                          Hook("unknown", j, <<"unknown job type">>)>>, r)
                       EXCEPT !.opt = <<strategy>>]

(***************************************************************************)
(* Step 4 of the loop, after the handler: on success Delete, or Finished   *)
(* and Migrate, then Done; on an error or a recovered panic Error(msg).    *)
(* The job-done hooks run last.                                            *)
(***************************************************************************)
FinalizeSuccess(c, opt) ==
    IF opt.preserve
    THEN IF opt.migrate
         THEN Calls(c, <<"Finished", "Migrate", "Done">>)
         ELSE Calls(c, <<"Finished", "Done">>)
    ELSE Calls(c, <<"Delete", "Done">>)

HandlerMsg(out) == IF out = "panic" THEN "job panicked" ELSE "boom"

Finalize(c, out, opt) ==
    IF out = "ok"
    THEN FinalizeSuccess(c, opt)
    ELSE Error(c, HandlerMsg(out))

HandlerErr(out) == IF out = "ok" THEN Nil ELSE <<HandlerMsg(out)>>

(***************************************************************************)
(* The handler is user code holding the Job: before it returns it may call *)
(* Finished, Delete, Done or Error on it.  ms is the sequence of its       *)
(* calls.  A panic of such a call is the handler's panic, which the worker *)
(* recovers and handles as an error.                                       *)
(***************************************************************************)
Methods == {"Finished", "Delete", "Done", "Error"}

Handler(c, ms) == Calls(c, ms)

CallSeqs == UNION {[1..n -> Methods] : n \in 0..MaxCalls}

(***************************************************************************)
(* One run of the handler and the worker's finalization of the job.        *)
(***************************************************************************)
Result(h, out) == IF h.pan THEN "panic" ELSE out

WorkJob(c, ms, out, opt) ==
    LET h == Handler(c, ms)
    IN  Finalize([h EXCEPT !.pan = FALSE], Result(h, out), opt)

DoneHooks(j, out, c) ==
    IF c.pan THEN <<>> ELSE <<Hook("done", j, HandlerErr(out))>>

HandlerReturn(w, ms, out, opt, f) ==
    LET h == Handler(Ctx(w, f), ms)
        r == WorkJob(Ctx(w, f), ms, out, opt)
        res == Result(h, out)
    IN  /\ pc[w] = "work"
        /\ (res # "ok" \/ \E i \in 1..Len(ms) : ms[i] = "Error")
              => job[w].ErrorCount < MaxErrors
        /\ FaultOK(f, r)
        /\ Release(w, r)
        /\ res # "ok" => opt = DefaultOptions
        /\ last' = [Did(w, res, [ID |-> job[w].ID], DoneHooks(job[w], res, r), r)
                       EXCEPT !.calls = ms, !.opt = <<opt>>]

(***************************************************************************)
(* Step 1 of the loop under a cancelled context: the worker returns.       *)
(***************************************************************************)
Exit(w) ==
    /\ pc[w] = "idle"
    /\ cancelled
    /\ pc' = [pc EXCEPT ![w] = "exited"]
    /\ last' = NoLast
    /\ UNCHANGED <<db, archive, nextId, now, cancelled, job, tx, faults, retryAt, pool, hist, race>>

Init ==
    /\ db = [id \in JobIds |-> NoRow]
    /\ archive = {}
    /\ nextId = 1
    /\ now = 0
    /\ cancelled = FALSE
    /\ pc = [w \in Workers |-> "idle"]
    /\ job = [w \in Workers |-> NoJob]
    /\ tx = [w \in Workers |-> NoTx]
    /\ last = NoLast
    /\ retryAt = [id \in JobIds |-> Null]
    /\ faults = 0
    /\ pool = LoopPool
    /\ hist = <<>>
    /\ race = <<>>

Outcomes == {"ok", "error", "panic"}

(***************************************************************************)
(* The steps of the system with at most max jobs enqueued, handlers whose  *)
(* calls are drawn from CS, workers whose options are drawn from O and B,  *)
(* and faults drawn from F.                                                *)
(***************************************************************************)
Steps(max, CS, O, B, F) ==
    \/ \E k \in JobKinds : Enqueue(k, max)
    \/ Tick
    \/ Cancel
    \/ \E w \in Workers, s \in Strategies : PollEmpty(w, s)
    \/ \E w \in Workers, s \in Strategies, b \in B : PollJob(w, s, b)
    \/ \E w \in Workers, s \in Strategies, f \in F : PollUnknown(w, s, f)
    \/ \E w \in Workers, ms \in CS, out \in Outcomes, opt \in O, f \in F :
          HandlerReturn(w, ms, out, opt, f)
    \/ \E w \in Workers : Exit(w)

(***************************************************************************)
(* Spec: the life of one job under every handler and every option, with a  *)
(* database that does not fail.  FaultySpec adds the faults of the         *)
(* database, under the default backoff.  QueueSpec: several jobs in the    *)
(* queue, under handlers that only return.                                 *)
(***************************************************************************)
Next == Steps(MaxJobs, CallSeqs, Options, Backoffs, {0})

Spec == Init /\ [][Next]_vars

NextFaulty ==
    \/ Steps(MaxJobs, CallSeqs, Options, {DefaultBackoff}, 0..MaxOps)
    \/ \E w \in Workers : PollError(w)

FaultySpec == Init /\ [][NextFaulty]_vars

NextQueue == Steps(QueueJobs, {<<>>}, {DefaultOptions}, {"exponential"}, {0})

QueueSpec == Init /\ [][NextQueue]_vars

(***************************************************************************)
(* PoolSpec: a pool of any size built from any options, whose workers'     *)
(* hooks are then run, one lifecycle point at a time.                      *)
(***************************************************************************)
InitPool ==
    /\ db = [id \in JobIds |-> NoRow]
    /\ archive = {}
    /\ nextId = 1
    /\ now = 0
    /\ cancelled = FALSE
    /\ pc = [w \in Workers |-> "idle"]
    /\ job = [w \in Workers |-> NoJob]
    /\ tx = [w \in Workers |-> NoTx]
    /\ last = NoLast
    /\ retryAt = [id \in JobIds |-> Null]
    /\ faults = 0
    /\ \E n \in 0..NumWorkers, opts \in OptionSeqs : pool = BuiltPool(n, opts)
    /\ hist = <<>>
    /\ race = <<>>

NextPool == \E point \in Points : RunHooks(point)

PoolSpec == InitPool /\ [][NextPool]_vars

(***************************************************************************)
(* ArchiveSpec: the life of one job under handlers that may call Finished, *)
(* Migrate and Delete themselves before they return.                       *)
(***************************************************************************)
ArchiveCalls ==
    {<<>>, <<"Finished">>, <<"Migrate">>, <<"Delete">>, <<"Finished", "Migrate">>}

NextArchive == Steps(MaxJobs, ArchiveCalls, Options, {DefaultBackoff}, {0})

ArchiveSpec == Init /\ [][NextArchive]_vars

(***************************************************************************)
(* PreserveSpec: the life of one job under every option, with handlers     *)
(* that only return: finished_at is then written by nothing but the        *)
(* worker's finalization of a successful run in preserve mode.             *)
(***************************************************************************)
NextPreserve == Steps(MaxJobs, {<<>>}, Options, {DefaultBackoff}, {0})

PreserveSpec == Init /\ [][NextPreserve]_vars

(***************************************************************************)
(* MethodSpec: user code holding a locked Job calls its methods one after  *)
(* another, against a database whose Exec and Commit may fail.  hist keeps *)
(* one record per call: the method, the Job and the transaction before and *)
(* after it, what it returned, the database operations and the Commits it  *)
(* issued and, for Error, the errors of its UPDATE and of its Done.        *)
(***************************************************************************)
MaxHist == 3

LockedRows ==
    {[NewRow(k) EXCEPT !.args = a,
                       !.error_count = n,
                       !.last_error = IF n = 0 THEN "" ELSE "boom",
                       !.updated_at = IF n = 0 THEN Null ELSE 0] :
        k \in {k \in JobKinds : k.queue = WorkerQueue /\ k.type \in WorkMap /\ k.delay = 0},
        a \in {"[]", "{}"},
        n \in 0..1}

InitMethods ==
    /\ now = 0
    /\ \E row \in LockedRows : db = [id \in JobIds |-> IF id = 1 THEN row ELSE NoRow]
    /\ archive = {}
    /\ nextId = 2
    /\ cancelled = FALSE
    /\ pc = [w \in Workers |-> IF w = 1 THEN "work" ELSE "idle"]
    /\ job = [w \in Workers |-> IF w = 1 THEN ScanJob(1, DefaultBackoff) ELSE NoJob]
    /\ tx = [w \in Workers |-> IF w = 1 THEN OpenTx(1) ELSE NoTx]
    /\ last = NoLast
    /\ retryAt = [id \in JobIds |-> Null]
    /\ faults = 0
    /\ pool = LoopPool
    /\ hist = <<>>
    /\ race = <<>>

AllMethods == {"Delete", "Finished", "Migrate", "Done", "Error"}

CallRecord(m, c, r) ==
    [m |-> m,
     t |-> c.t,
     pre |-> [j |-> c.j, tx |-> c.tx],
     post |-> [j |-> r.j, tx |-> r.tx],
     err |-> r.err,
     pan |-> r.pan,
     ops |-> r.ops,
     commits |-> r.tx.closes - c.tx.closes,
     upd |-> IF m = "Error" THEN ErrorUpdate(c, "boom").err ELSE Nil,
     done |-> IF m = "Error" THEN Done(ErrorUpdate(c, "boom")).err ELSE Nil]

Invoke(m, f, soft) ==
    LET c == [Ctx(1, f) EXCEPT !.soft = soft]
        r == Call(c, m)
    IN  /\ pc[1] = "work"
        /\ Len(hist) < MaxHist
        /\ f > 0 => r.hit
        /\ soft => f > 0
        /\ db' = r.db
        /\ archive' = r.archive
        /\ job' = [job EXCEPT ![1] = r.j]
        /\ tx' = [tx EXCEPT ![1] = r.tx]
        /\ pc' = [pc EXCEPT ![1] = IF r.pan THEN "crashed" ELSE "work"]
        /\ hist' = Append(hist, CallRecord(m, c, r))
        /\ last' = NoLast
        /\ UNCHANGED <<nextId, now, cancelled, faults, retryAt, pool, race>>

NextMethods ==
    \/ \E m \in AllMethods, f \in 0..2, soft \in BOOLEAN : Invoke(m, f, soft)
    \/ Tick

MethodSpec == InitMethods /\ [][NextMethods]_vars

(***************************************************************************)
(* RaceSpec: two goroutines of one handler each call one method of the     *)
(* same locked Job.  race.mu is the holder of j.mu (0: nobody) and         *)
(* race.g[g] the call of goroutine g: its method m, its position pc, the   *)
(* value of j.tx it loaded (held), what Tx returned (got) and the error it *)
(* returned.  Tx, Delete, Finished and Done lock j.mu, run and unlock;     *)
(* Done's Commit and its clearing of the handles are two steps.  Error     *)
(* loads j.tx and calls Exec on it without the mutex, and then runs the    *)
(* deferred Done.  A load of j.tx while another goroutine is between its   *)
(* Commit and the end of its writes to the handles is a data race, and     *)
(* yields either value.  unlocked records an access to j.tx made without   *)
(* the mutex, stale an Exec on a handle that another call had cleared.     *)
(***************************************************************************)
Goroutines == 1..2

RaceMethods == {"Tx", "Delete", "Finished", "Done", "Error"}

Call0(m) ==
    [m |-> m, pc |-> "start", held |-> FALSE, got |-> FALSE, err |-> Nil]

InitRace ==
    /\ now = 0
    /\ \E row \in LockedRows : db = [id \in JobIds |-> IF id = 1 THEN row ELSE NoRow]
    /\ archive = {}
    /\ nextId = 2
    /\ cancelled = FALSE
    /\ pc = [w \in Workers |-> IF w = 1 THEN "work" ELSE "idle"]
    /\ job = [w \in Workers |-> IF w = 1 THEN ScanJob(1, DefaultBackoff) ELSE NoJob]
    /\ tx = [w \in Workers |-> IF w = 1 THEN OpenTx(1) ELSE NoTx]
    /\ last = NoLast
    /\ retryAt = [id \in JobIds |-> Null]
    /\ faults = 0
    /\ pool = LoopPool
    /\ hist = <<>>
    /\ \E ms \in [Goroutines -> RaceMethods] :
          race = [mu |-> 0, g |-> [g \in Goroutines |-> Call0(ms[g])],
                  unlocked |-> FALSE, stale |-> FALSE]

Tx(c) == c.j.tx

Running == pc[1] = "work"

Goto(g, to) == [race EXCEPT !.g[g].pc = to]

Store(r) ==
    /\ db' = r.db
    /\ archive' = r.archive
    /\ job' = [job EXCEPT ![1] = r.j]
    /\ tx' = [tx EXCEPT ![1] = r.tx]
    /\ pc' = [pc EXCEPT ![1] = IF r.pan THEN "crashed" ELSE "work"]

\* j.mu.Lock() at the head of Tx, Delete, Finished, Done, and of Error's deferred Done
MuLock(g) ==
    /\ Running
    /\ \/ race.g[g].m # "Error" /\ race.g[g].pc = "start"
       \/ race.g[g].m = "Error" /\ race.g[g].pc = "defer"
    /\ race.mu = 0
    /\ race' = [Goto(g, "in") EXCEPT !.mu = g]
    /\ UNCHANGED <<loopVars, pool, hist>>

\* the body of Tx, Delete or Finished, under the mutex
Body(g) ==
    LET m == race.g[g].m
        c == Ctx(1, 0)
        r == IF m = "Tx" THEN c ELSE Call(c, m)
    IN  /\ Running
        /\ race.g[g].pc = "in"
        /\ m \in {"Tx", "Delete", "Finished"}
        /\ Store(r)
        /\ race' = [Goto(g, "out") EXCEPT !.g[g].got = Tx(c), !.g[g].err = r.err]
        /\ UNCHANGED <<nextId, now, cancelled, last, retryAt, faults, pool, hist>>

\* Done up to its Commit
DoneCommit(g) ==
    LET c == Ctx(1, 0)
        r == TxCommit(c)
    IN  /\ Running
        /\ race.g[g].pc = "in"
        /\ race.g[g].m \in {"Done", "Error"}
        /\ IF ~c.j.tx \/ ~c.j.pool
           THEN /\ race' = Goto(g, "out")
                /\ UNCHANGED <<db, archive, job, tx, pc>>
           ELSE /\ Store(r)
                /\ race' = IF r.err # Nil
                           THEN [Goto(g, "out") EXCEPT
                                    !.g[g].err = IF race.g[g].m = "Error"
                                                 THEN <<"done">> \o @ \o r.err
                                                 ELSE r.err]
                           ELSE Goto(g, "committed")
        /\ UNCHANGED <<nextId, now, cancelled, last, retryAt, faults, pool, hist>>

\* Done after a Commit that succeeded: j.pool = nil, j.tx = nil
DoneClear(g) ==
    /\ Running
    /\ race.g[g].pc = "committed"
    /\ job' = [job EXCEPT ![1].pool = FALSE, ![1].tx = FALSE]
    /\ race' = Goto(g, "out")
    /\ UNCHANGED <<db, archive, nextId, now, cancelled, pc, tx, last, retryAt, faults, pool, hist>>

\* the deferred j.mu.Unlock()
MuUnlock(g) ==
    /\ Running
    /\ race.g[g].pc = "out"
    /\ race' = [Goto(g, "done") EXCEPT !.mu = 0]
    /\ UNCHANGED <<loopVars, pool, hist>>

\* Error: the load of j.tx for j.tx.Exec, with no mutex held
Writing(g) == \E o \in Goroutines \ {g} : race.g[o].pc = "committed"

ErrorLoadTx(g) ==
    /\ Running
    /\ race.g[g].m = "Error"
    /\ race.g[g].pc = "start"
    /\ \E v \in (IF Writing(g) THEN BOOLEAN ELSE {job[1].tx}) :
          race' = [Goto(g, "loaded") EXCEPT !.g[g].held = v,
                                            !.unlocked = (race.mu # g)]
    /\ UNCHANGED <<loopVars, pool, hist>>

\* Error: Exec of the UPDATE on the handle it loaded
ErrorExec(g) ==
    LET c == [Ctx(1, 0) EXCEPT !.j.tx = race.g[g].held]
        r == ErrorUpdate(c, "boom")
    IN  /\ Running
        /\ race.g[g].pc = "loaded"
        /\ Store([r EXCEPT !.j = job[1]])
        /\ race' = [Goto(g, "defer") EXCEPT
                        !.g[g].err = r.err,
                        !.stale = (@ \/ (race.g[g].held /\ ~job[1].tx))]
        /\ UNCHANGED <<nextId, now, cancelled, last, retryAt, faults, pool, hist>>

NextRace ==
    \E g \in Goroutines :
        \/ MuLock(g)
        \/ Body(g)
        \/ DoneCommit(g)
        \/ DoneClear(g)
        \/ MuUnlock(g)
        \/ ErrorLoadTx(g)
        \/ ErrorExec(g)

RaceSpec == InitRace /\ [][NextRace]_vars

(***************************************************************************)
(* Shorthands for the properties below.                                    *)
(***************************************************************************)
Present(id) == db[id] # NoRow
Ran == {"ok", "error", "panic"}
Failed == {"error", "panic"}
Locks == {"locked", "unknown"}
Called(m) == \E i \in 1..Len(last.calls) : last.calls[i] = m
Waiting(id) ==
    /\ Present(id)
    /\ db[id].queue = WorkerQueue
    /\ db[id].run_at <= now
    /\ \A w \in Workers : ~(HoldsLock(w) /\ job[w].ID = id)

(***************************************************************************)
(* C1: at every instant each job id is locked, with an open transaction,   *)
(* by at most one worker, and no lock query of either strategy returns a   *)
(* job while a worker's transaction holds it.                              *)
(***************************************************************************)
C1_MutualExclusion ==
    /\ \A v, w \in Workers :
          (v # w /\ HoldsLock(v) /\ HoldsLock(w)) => job[v].ID # job[w].ID
    /\ \A w \in Workers, s \in Strategies :
          HoldsLock(w) => LockQuery(WorkerQueue, s) # job[w].ID

\* A worker holds a job that is due, and the other worker's poll came back empty.
C1_Witness ==
    \E w \in Workers :
        /\ HoldsLock(w)
        /\ db[job[w].ID].run_at <= now
        /\ db[job[w].ID].queue = WorkerQueue
        /\ last.step = "empty"
        /\ last.w # w

(***************************************************************************)
(* C2: every time a worker leaves the Locked state for a job whose type    *)
(* has a handler, exactly one of two outcomes is committed: the job is     *)
(* completed (row deleted, or finished_at set) or it is rescheduled with   *)
(* error_count incremented; never both and never neither.                  *)
(***************************************************************************)
Completed(d, id) == d[id] = NoRow \/ d[id].finished_at # Null
Rescheduled(d, id, n) == d[id] # NoRow /\ d[id].error_count = n + 1

C2_ExactlyOneOutcome ==
    [][\A w \in Workers :
          (pc[w] = "work" /\ pc'[w] # "work") =>
              /\ Completed(db', job[w].ID) \/ Rescheduled(db', job[w].ID, job[w].ErrorCount)
              /\ ~(/\ Completed(db', job[w].ID)
                    /\ Rescheduled(db', job[w].ID, job[w].ErrorCount))]_vars

(***************************************************************************)
(* C3: after a handler returned success and the worker's finalization is   *)
(* committed, the row is absent when preserve=false and present with       *)
(* finished_at set when preserve=true.                                     *)
(***************************************************************************)
FinalizedOk == last.step = "ok" /\ ~last.pan /\ last.tx = "committed"

C3_Original ==
    FinalizedOk =>
        IF last.opt[1].preserve
        THEN Present(last.job.ID) /\ db[last.job.ID].finished_at # Null
        ELSE ~Present(last.job.ID)

(***************************************************************************)
(* C3, amended: after a handler returned success and the worker's          *)
(* finalization is committed, the row is absent when preserve=false; when  *)
(* preserve=true it is present with finished_at set, or absent because the *)
(* handler itself called Delete; it is never present with finished_at      *)
(* unset.                                                                  *)
(***************************************************************************)
C3_Amended ==
    FinalizedOk =>
        /\ Present(last.job.ID) => db[last.job.ID].finished_at # Null
        /\ ~last.opt[1].preserve => ~Present(last.job.ID)
        /\ (last.opt[1].preserve /\ ~Called("Delete")) => Present(last.job.ID)

\* A successful run was finalized in preserve mode and the row stays, finished.
C3_Witness ==
    /\ FinalizedOk
    /\ last.opt[1].preserve
    /\ Present(last.job.ID)
    /\ db[last.job.ID].finished_at # Null

(***************************************************************************)
(* C4: the stored error_count never decreases.  It changes only when an    *)
(* Error(msg) on a job locked with error_count = n commits, and then the   *)
(* row has error_count = n+1 and last_error = msg; a new row starts at 0.  *)
(***************************************************************************)
ErrorCommitted(w) ==
    /\ last'.w = w
    /\ last'.job.ID = job[w].ID
    /\ \/ last'.step \in Failed /\ ~last'.pan /\ last'.tx = "committed"
       \/ \E i \in 1..Len(last'.calls) : last'.calls[i] = "Error"

ErrorMsgs(w) ==
    {HandlerMsg(last'.step)} \cup
        (IF \E i \in 1..Len(last'.calls) : last'.calls[i] = "Error"
         THEN {"boom"} ELSE {})

C5_BackoffRespected ==
    /\ \A id \in JobIds :
          (Present(id) /\ retryAt[id] # Null) => db[id].run_at = retryAt[id]
    /\ (last.step \in Locks /\ retryAt[last.job.ID] # Null) =>
          retryAt[last.job.ID] <= now
    /\ \A w \in Workers :
          (pc[w] = "work" /\ retryAt[job[w].ID] # Null) => retryAt[job[w].ID] <= now

\* A job that has failed twice is locked for its third attempt at the very
\* instant its second backoff ends.
C5_Witness ==
    /\ last.step = "locked"
    /\ last.job.ErrorCount = 2
    /\ retryAt[last.job.ID] = now

(***************************************************************************)
(* C6: no worker ever locks or dispatches a job whose stored run_at is     *)
(* later than the time of the lock query, under either strategy.           *)
(***************************************************************************)
C6_Eligibility ==
    /\ last.step \in Locks => last.job.RunAt <= now
    /\ \A w \in Workers : pc[w] = "work" => job[w].RunAt <= now

\* A job is locked while another job of the queue is not due yet.
C6_Witness ==
    /\ last.step = "locked"
    /\ \E id \in JobIds :
          Present(id) /\ db[id].queue = WorkerQueue /\ db[id].run_at > now

(***************************************************************************)
(* C7: LockNextJob returns the least job among the jobs of the queue that  *)
(* are due and not locked by another transaction, by (priority, run_at,    *)
(* id) under PriorityPollStrategy and by (run_at, priority, id) under      *)
(* RunAtPollStrategy, and returns nil only when there is no such job.      *)
(***************************************************************************)
Earlier(strategy, j, id) ==
    IF strategy = "priority"
    THEN \/ j.Priority < db[id].priority
         \/ j.Priority = db[id].priority /\ j.RunAt < db[id].run_at
         \/ j.Priority = db[id].priority /\ j.RunAt = db[id].run_at /\ j.ID < id
    ELSE \/ j.RunAt < db[id].run_at
         \/ j.RunAt = db[id].run_at /\ j.Priority < db[id].priority
         \/ j.RunAt = db[id].run_at /\ j.Priority = db[id].priority /\ j.ID < id

C7_LeastJob ==
    /\ last.step \in Locks =>
          /\ last.job.Queue = WorkerQueue
          /\ last.job.RunAt <= now
          /\ \A id \in JobIds \ {last.job.ID} :
                Waiting(id) => Earlier(last.opt[1], last.job, id)
    /\ last.step = "empty" => \A id \in JobIds : ~Waiting(id)

\* The run_at strategy locks a job although a job of higher priority is waiting.
C7_Witness ==
    /\ last.step = "locked"
    /\ last.opt[1] = "run_at"
    /\ \E id \in JobIds \ {last.job.ID} :
          Waiting(id) /\ db[id].priority < last.job.Priority

(***************************************************************************)
(* C8: once the pool's context is cancelled every worker returns, with no  *)
(* job left locked: when the context is cancelled and no worker is polling *)
(* or working any more, every worker has returned from its loop and holds  *)
(* no transaction.                                                         *)
(***************************************************************************)
C8_GracefulShutdown ==
    (cancelled /\ \A w \in Workers : pc[w] \notin {"idle", "work"}) =>
        \A w \in Workers : pc[w] = "exited" /\ ~HoldsLock(w)

(***************************************************************************)
(* C9: no per-job outcome terminates a worker: after a handler error, a    *)
(* handler panic, a lock-query error or an unknown job type the worker is  *)
(* back at polling, and a worker returns only under a cancelled context.   *)
(***************************************************************************)
C9_WorkerSurvives ==
    /\ last.step \in Failed \cup {"lockerr", "unknown"} => pc[last.w] = "idle"
    /\ \A w \in Workers : pc[w] \notin {"idle", "work"} => (pc[w] = "exited" /\ cancelled)

(***************************************************************************)
(* C10: when a worker locks a job whose type is not in its work-map, the   *)
(* row is deleted and the transaction committed, the unknown-job-type      *)
(* hooks are invoked with a non-nil error, no handler runs, and the        *)
(* job-done hooks are not invoked for the job.                             *)
(***************************************************************************)
C10_UnknownType ==
    /\ last.step = "unknown" =>
          /\ last.job.Type \notin WorkMap
          /\ ~Present(last.job.ID)
          /\ last.tx = "committed"
          /\ \E i \in 1..Len(last.hooks) :
                last.hooks[i] = [point |-> "unknown", job |-> TRUE, err |-> TRUE]
          /\ \A i \in 1..Len(last.hooks) : last.hooks[i].point # "done"
          /\ pc[last.w] = "idle"
    /\ \A i \in 1..Len(last.hooks) :
          last.hooks[i].point = "done" => last.step \in Ran
    /\ \A w \in Workers : pc[w] = "work" => job[w].Type \in WorkMap

\* A worker has locked and finalized a job of an unknown type.
C10_Witness == last.step = "unknown" /\ last.job.Type = "NoSuch"

(***************************************************************************)
(* C11: on every poll the job-locked hooks are invoked exactly once per    *)
(* hook, with the job and no error on a successful lock, the error and no  *)
(* job on a lock failure, and neither on an empty poll; after a lock       *)
(* failure no unknown-job-type or job-done hook is invoked for that poll,  *)
(* and the steps after the poll do not invoke the job-locked hooks again.  *)
(***************************************************************************)
Invoked(point) == {i \in 1..Len(last.hooks) : last.hooks[i].point = point}
HooksOf(w, point) == Len(HooksAt(pool.p.workers[w], point))

OptionName(point) ==
    CASE point = "locked" -> "JobLocked"
      [] point = "unknown" -> "UnknownJobType"
      [] point = "done" -> "JobDone"

Supplied(point) ==
    LET given == {i \in 1..Len(pool.opts) : pool.opts[i].name = OptionName(point)}
    IN  IF given = {} THEN <<>>
        ELSE pool.opts[CHOOSE i \in given : \A k \in given : k <= i].hooks

C19_PoolHooks ==
    /\ Len(pool.p.workers) = pool.n
    /\ \A point \in Points :
          /\ \A i \in 1..pool.n : HooksAt(pool.p.workers[i], point) = Supplied(point)
          /\ point \in pool.ran => pool.counter[point] = pool.n * Len(Supplied(point))
          /\ point \notin pool.ran => pool.counter[point] = 0

\* A pool of NumWorkers workers with two different job-done hooks, all run.
C19_Witness ==
    /\ pool.n = NumWorkers
    /\ Supplied("done") = <<2, 1>>
    /\ Supplied("locked") = <<>>
    /\ "done" \in pool.ran
    /\ pool.counter["done"] = NumWorkers * 2

(***************************************************************************)
(* C12: every transaction opened by LockNextJob is committed or rolled     *)
(* back exactly once before the worker begins its next poll: after every   *)
(* poll that locked nothing and after every finalization of a job the      *)
(* transaction is over and exactly one Commit or Rollback was issued on    *)
(* it, and no worker at the start of a poll holds a transaction.           *)
(***************************************************************************)
C12_ClosedExactlyOnce ==
    /\ last.step \in {"empty", "lockerr", "unknown"} \cup Ran =>
          /\ last.tx \in {"committed", "rolledback"}
          /\ last.closes = 1
    /\ \A w \in Workers : pc[w] = "idle" => ~HoldsLock(w) /\ job[w] = NoJob

(***************************************************************************)
(* C13: with the Never backoff a failed attempt is terminal: when the      *)
(* Error of a job locked under the Never backoff has committed, the job is *)
(* not left in the active table as a row that the lock query returns.      *)
(***************************************************************************)
Dispatchable(d, id, t) ==
    d[id] # NoRow /\ d[id].queue = WorkerQueue /\ d[id].run_at <= t

C13_NeverIsTerminal ==
    [][\A w \in Workers :
          (/\ pc[w] = "work"
           /\ job[w].backoff = "never"
           /\ last'.w = w
           /\ last'.step \in Failed
           /\ last'.tx = "committed"
           /\ ~last'.pan) => ~Dispatchable(db', job[w].ID, now')]_vars

(***************************************************************************)
(* C14: finished_at is committed only by a successful run: whenever the    *)
(* committed row of a job gets a finished_at, the step that committed it   *)
(* is the finalization of a handler that returned nil without panicking.   *)
(***************************************************************************)
C14_FinishedOnlyOnSuccess ==
    [][\A id \in 1..MaxJobs :
          (/\ Present(id)
           /\ db[id].finished_at = Null
           /\ db'[id] # NoRow
           /\ db'[id].finished_at # Null) =>
                /\ last'.step = "ok"
                /\ last'.job.ID = id]_vars

(***************************************************************************)
(* C16: Error always attempts Done.  Every call of Error on a Job that     *)
(* still has its transaction and pool handles issues exactly one Commit,   *)
(* whether its UPDATE failed or not; it returns nil only when the UPDATE   *)
(* and the Commit both succeeded, the UPDATE's error when only the UPDATE  *)
(* failed, and when the Commit failed an error that wraps the Commit's     *)
(* error and carries the UPDATE's.                                         *)
(***************************************************************************)
ErrorCalls == {i \in 1..Len(hist) : hist[i].m = "Error" /\ hist[i].pre.j.tx /\ hist[i].pre.j.pool}

C16_ErrorAlwaysDone ==
    \A i \in ErrorCalls :
        LET h == hist[i]
        IN  /\ ~h.pan
            /\ h.commits = 1
            /\ h.err = Nil <=> (h.upd = Nil /\ h.done = Nil)
            /\ (h.upd # Nil /\ h.done = Nil) => h.err = h.upd
            /\ h.done # Nil => h.err = <<"done">> \o h.upd \o h.done

C16_Witness ==
    \E i \in ErrorCalls :
        /\ hist[i].upd # Nil
        /\ hist[i].done = Nil
        /\ hist[i].commits = 1
        /\ hist[i].err = <<"exec">>

(***************************************************************************)
(* C20: Done, Delete and Finished are idempotent.  Once Done has committed *)
(* (by itself or as the deferred step of Error) a later Done returns nil   *)
(* and issues no Commit; once Delete has succeeded a later Delete returns  *)
(* nil and issues no SQL; once Finished has succeeded a later Finished     *)
(* returns nil, issues no SQL and leaves FinishedAt as it was.             *)
(***************************************************************************)
Succeeded(h, m) ==
    /\ ~h.pan
    /\ \/ m \in {"Delete", "Finished"} /\ h.m = m /\ h.err = Nil
       \/ m = "Done" /\ h.m = "Done" /\ h.err = Nil /\ h.commits = 1
       \/ m = "Done" /\ h.m = "Error" /\ h.done = Nil /\ h.commits = 1

NoOp(h) ==
    /\ ~h.pan
    /\ h.err = Nil
    /\ h.ops = 0
    /\ h.commits = 0
    /\ h.post = h.pre

C20_Idempotent ==
    \A m \in {"Done", "Delete", "Finished"} :
        \A i \in 1..Len(hist), k \in 1..Len(hist) :
            (i < k /\ Succeeded(hist[i], m) /\ hist[k].m = m) => NoOp(hist[k])

C20_Witness ==
    /\ \E i \in 1..Len(hist), k \in 1..Len(hist) :
          /\ i < k
          /\ hist[i].m = "Finished" /\ hist[i].ops = 1 /\ hist[i].err = Nil
          /\ hist[k].m = "Finished" /\ hist[k].t > hist[i].t
          /\ hist[k].post.j.FinishedAt = hist[i].t
    /\ hist[Len(hist)].m = "Done"
    /\ hist[Len(hist)].commits = 1

(***************************************************************************)
(* C17: Migrate copies all columns faithfully.  A Migrate that succeeds on *)
(* a finished job inserts one archive row, each column of which equals the *)
(* column of the job's row in the active table as the transaction will     *)
(* commit it - a null updated_at included.                                 *)
(***************************************************************************)
Migrations ==
    {i \in 1..Len(hist) :
        /\ hist[i].m = "Migrate"
        /\ hist[i].pre.j.finished
        /\ hist[i].ops = 1
        /\ hist[i].err = Nil
        /\ hist[i].pre.tx.row # NoRow}

SameColumns(a, id, row) ==
    /\ a.job_id = id
    /\ a.type = row.type
    /\ a.queue = row.queue
    /\ a.args = row.args
    /\ a.priority = row.priority
    /\ a.run_at = row.run_at
    /\ a.error_count = row.error_count
    /\ a.last_error = row.last_error
    /\ a.created_at = row.created_at
    /\ a.updated_at = row.updated_at
    /\ a.finished_at = row.finished_at

C17_MigrateCopiesAll ==
    \A i \in Migrations :
        \E a \in hist[i].post.tx.arch :
            /\ hist[i].post.tx.arch = hist[i].pre.tx.arch \cup {a}
            /\ SameColumns(a, hist[i].pre.j.ID, hist[i].post.tx.row)

(***************************************************************************)
(* C18: the archive table gains a row for a job only when the job has been *)
(* marked finished and the worker runs with preserve=true and              *)
(* migrate=true; with preserve=false a successful job is never archived.   *)
(***************************************************************************)
Archived == archive' \ archive

C18_Original ==
    [][\A a \in Archived :
          /\ a.job_id = last'.job.ID
          /\ a.finished_at # ZeroTime
          /\ last'.step = "ok"
          /\ last'.opt[1].preserve
          /\ last'.opt[1].migrate]_vars

(***************************************************************************)
(* C18, amended: the archive table gains a row for a job only when the job *)
(* has been marked finished and Migrate was then called on it, in a        *)
(* transaction that committed.  The worker calls Migrate only after a      *)
(* successful handler, with preserve=true and migrate=true; otherwise the  *)
(* row comes from a handler that called Finished and then Migrate itself.  *)
(* Migrate on a job that is not marked finished inserts nothing.           *)
(***************************************************************************)
HandlerMigrated(calls) ==
    \E i \in 1..Len(calls), k \in 1..Len(calls) :
        i < k /\ calls[i] = "Finished" /\ calls[k] = "Migrate"

C18_Amended ==
    [][\A a \in Archived :
          /\ a.job_id = last'.job.ID
          /\ a.finished_at # ZeroTime
          /\ last'.tx = "committed"
          /\ \/ last'.step = "ok" /\ last'.opt[1].preserve /\ last'.opt[1].migrate
             \/ HandlerMigrated(last'.calls)]_vars

\* A successful run under preserve and migrate was committed with its archive row.
C18_Witness ==
    /\ FinalizedOk
    /\ last.opt[1].preserve
    /\ last.opt[1].migrate
    /\ ~HandlerMigrated(last.calls)
    /\ \E a \in archive : a.job_id = last.job.ID /\ a.finished_at = now

(***************************************************************************)
(* C15: the job methods are safe under concurrent callers on one job.      *)
(* Every access to the transaction and pool handles is made with the       *)
(* per-job mutex held; no call runs a statement on a transaction handle    *)
(* that another call has already cleared; and the mutex is never held by a *)
(* call that cannot go on to release it.                                   *)
(***************************************************************************)
C15_MutexSafety ==
    /\ ~race.unlocked
    /\ ~race.stale
    /\ race.mu # 0 => race.g[race.mu].pc \in {"in", "committed", "out"}

(***************************************************************************)
(* C21: once a job's handler has succeeded and its finalization has been   *)
(* committed, no worker locks that job again: a poll never locks a row     *)
(* whose committed finished_at is set (in non-preserve mode the row is     *)
(* gone and cannot be locked at all).                                      *)
(***************************************************************************)
C21_NoRelock ==
    [][last'.step \in Locks =>
          /\ Present(last'.job.ID)
          /\ db[last'.job.ID].finished_at = Null]_vars

(***************************************************************************)
(* C22: no job method executes SQL on a closed transaction.  In every      *)
(* sequence of calls on one job, a call of Delete, Finished, Migrate or    *)
(* Error that reaches its Exec does so while the Job's transaction handle  *)
(* is set and the transaction behind it has not been closed; none of them  *)
(* calls Exec through the handle that Done has cleared.                    *)
(***************************************************************************)
ExecMethods == {"Delete", "Finished", "Migrate", "Error"}

C22_NoSqlOnClosedTx ==
    \A i \in 1..Len(hist) :
        hist[i].m \in ExecMethods =>
            /\ ~hist[i].pan
            /\ hist[i].ops > 0 =>
                  /\ hist[i].pre.j.tx
                  /\ hist[i].pre.tx.st \notin {"committed", "rolledback"}

====
